---- MODULE Spec2Model ----
(***************************************************************************)
(* A model of the single-user spreadsheet of main.go: a matrix of cells,   *)
(* each with a value, an optional formula and the set of cell ids that     *)
(* depend on it, and the two operations SetCellValue and GetCellValue.     *)
(*                                                                         *)
(* A Go string is a sequence of one-character strings, so that the parsing *)
(* of cell ids and formulas is computed character by character as the code *)
(* does it.  A nil *string (no formula) is the empty sequence: the code    *)
(* never stores an empty formula, since a blank value is replaced by "0".  *)
(* A run-time panic (index out of range) is a result with panic = TRUE.    *)
(***************************************************************************)
EXTENDS Integers, Sequences, FiniteSets, TLC

VARIABLES cells, crashed, lastOp, lastErr, lastRet, recomputed, calls, lastLit,
          reqRows, reqCols

vars == <<cells, crashed, lastOp, lastErr, lastRet, recomputed, calls, lastLit,
          reqRows, reqCols>>

(***************************************************************************)
(* Characters and integers                                                 *)
(***************************************************************************)
Upper == <<"A", "B", "C", "D", "E", "F", "G", "H", "I", "J", "K", "L", "M",
           "N", "O", "P", "Q", "R", "S", "T", "U", "V", "W", "X", "Y", "Z">>

Digits == <<"0", "1", "2", "3", "4", "5", "6", "7", "8", "9">>

IsDigit(ch) == ch \in {Digits[d] : d \in 1..10}

DigitVal(ch) == (CHOOSE d \in 1..10 : Digits[d] = ch) - 1

\* The byte value (ASCII) of each character the inputs use.
ByteTable ==
    [ch \in {Upper[k] : k \in 1..26} |-> 64 + (CHOOSE k \in 1..26 : Upper[k] = ch)]
    @@ [ch \in {Digits[d] : d \in 1..10} |-> 47 + (CHOOSE d \in 1..10 : Digits[d] = ch)]
    @@ (" " :> 32) @@ ("+" :> 43) @@ ("-" :> 45) @@ (":" :> 58) @@ ("=" :> 61)
    @@ ("a" :> 97) @@ ("b" :> 98) @@ ("c" :> 99)

Byte(ch) == ByteTable[ch]

RECURSIVE DigitsValue(_)
DigitsValue(s) ==
    IF Len(s) = 0 THEN 0
    ELSE DigitsValue(SubSeq(s, 1, Len(s) - 1)) * 10 + DigitVal(s[Len(s)])

\* strconv.Atoi: an optional sign, then one or more decimal digits.
Atoi(s) ==
    LET signed == Len(s) > 0 /\ s[1] \in {"+", "-"}
        body   == IF signed THEN Tail(s) ELSE s
        ok     == Len(body) > 0 /\ \A i \in 1..Len(body) : IsDigit(body[i])
    IN  IF ~ok THEN [ok |-> FALSE, val |-> 0]
        ELSE [ok |-> TRUE,
              val |-> IF signed /\ s[1] = "-" THEN 0 - DigitsValue(body)
                      ELSE DigitsValue(body)]

\* strings.TrimSpace(value) has length 0.
IsBlank(s) == \A i \in 1..Len(s) : s[i] = " "

\* strings.Contains(s, ":")
HasColon(s) == \E i \in 1..Len(s) : s[i] = ":"

\* The positions of ":" in s, and strings.Split(s, ":")[0] and [1].
ColonAt(s) == {i \in 1..Len(s) : s[i] = ":"}

FirstColon(s) == CHOOSE i \in ColonAt(s) : \A j \in ColonAt(s) : i <= j

SplitFirst(s) == SubSeq(s, 1, FirstColon(s) - 1)

SplitSecond(s) ==
    LET rest == SubSeq(s, FirstColon(s) + 1, Len(s))
    IN  IF HasColon(rest) THEN SplitFirst(rest) ELSE rest

(***************************************************************************)
(* Cell ids                                                                *)
(***************************************************************************)
MaxCols == 26

ErrCol == "Invalid col number in cellId"
ErrRow == "Invalid row number in cellId"
ErrRowBounds == "Row number out of bounds in cellId"
ErrColBounds == "Column value out of bounds in cellId"
NoErr == "nil"

\* The results of getCellRowCol.
RowColError(err) == [panic |-> FALSE, err |-> err, row |-> -1, col |-> -1]

\* The tail of getCellRowCol, for the column col and r = Atoi(cellId[1:]).
RowColOf(col, r) ==
    IF col < 0 \/ col >= MaxCols THEN RowColError(ErrCol)
    ELSE IF ~r.ok THEN RowColError(ErrRow)
    ELSE [panic |-> FALSE, err |-> NoErr, row |-> r.val - 1, col |-> col]

\* getCellRowCol: cellId[0] panics on the empty string; the column is the
\* first byte minus 'A' in byte arithmetic; the row is Atoi of the rest.
getCellRowCol(cellId) ==
    IF Len(cellId) = 0
    THEN [panic |-> TRUE, err |-> NoErr, row |-> -1, col |-> -1]
    ELSE RowColOf((Byte(cellId[1]) - Byte("A")) % 256, Atoi(Tail(cellId)))

\* A term that is a number: row and col keep the zero value of CellId.
NumberTerm(val, sign) ==
    [row |-> 0, col |-> 0, sign |-> sign, hasVal |-> TRUE, val |-> val]

\* A term that is a cell.
CellTerm(row, col, sign) ==
    [row |-> row, col |-> col, sign |-> sign, hasVal |-> FALSE, val |-> 0]

\* The first branch of getCellIdsFromRange: a = Atoi(rangeStr), and rc =
\* getCellRowCol(rangeStr) is used when a is no number.  The error of
\* getCellRowCol is dropped, so a term that is neither a number nor a cell id
\* yields row = col = -1.
SingleTerm(a, rc, sign) ==
    IF a.ok THEN [panic |-> FALSE, ids |-> <<NumberTerm(a.val, sign)>>]
    ELSE [panic |-> rc.panic, ids |-> <<CellTerm(rc.row, rc.col, sign)>>]

\* The two loops of getCellIdsFromRange: the cells of the rows p.row..q.row
\* and the columns p.col..q.col, row by row; none when q lies before p.
RangeTerms(p, q, sign) ==
    IF p.panic \/ q.panic THEN [panic |-> TRUE, ids |-> <<>>]
    ELSE IF q.row < p.row \/ q.col < p.col THEN [panic |-> FALSE, ids |-> <<>>]
    ELSE [panic |-> FALSE,
          ids |-> [k \in 1..((q.row - p.row + 1) * (q.col - p.col + 1)) |->
                      CellTerm(p.row + ((k - 1) \div (q.col - p.col + 1)),
                               p.col + ((k - 1) % (q.col - p.col + 1)),
                               sign)]]

\* getCellIdsFromRange: one term (a number or a cell), or the cells of a
\* range.
getCellIdsFromRange(rangeStr, sign) ==
    IF ~HasColon(rangeStr)
    THEN SingleTerm(Atoi(rangeStr), getCellRowCol(rangeStr), sign)
    ELSE RangeTerms(getCellRowCol(SplitFirst(rangeStr)),
                    getCellRowCol(SplitSecond(rangeStr)), sign)

\* append(cellIds, terms...)
AppendTerms(acc, t) ==
    [panic |-> acc.panic \/ t.panic, ids |-> acc.ids \o t.ids]

\* The loop of getCellIdsFromFormula over formula[1:]: i is the position
\* read, start the first position of the current term.
RECURSIVE ScanFormula(_, _, _, _, _)
ScanFormula(f, i, start, sign, acc) ==
    IF i > Len(f)
    THEN AppendTerms(acc, getCellIdsFromRange(SubSeq(f, start, Len(f)), sign))
    ELSE IF f[i] # "+" /\ f[i] # "-"
    THEN ScanFormula(f, i + 1, start, sign, acc)
    ELSE ScanFormula(f, i + 1, i + 1, f[i],
           AppendTerms(acc, getCellIdsFromRange(SubSeq(f, start, i - 1), sign)))

getCellIdsFromFormula(formula) ==
    IF Len(formula) = 0 THEN [panic |-> TRUE, ids |-> <<>>]
    ELSE ScanFormula(Tail(formula), 1, 1, "+", [panic |-> FALSE, ids |-> <<>>])

(***************************************************************************)
(* The sheet                                                               *)
(***************************************************************************)
NoFormula == <<>>

\* CreateSpreadSheet without the clamp of numCols to 26.
CreateSpreadSheetNoClamp(numRows, numCols) ==
    [i \in 0..(numRows - 1) |->
        [j \in 0..(numCols - 1) |->
            [dependentCells |-> {}, value |-> 0, formula |-> NoFormula]]]

\* CreateSpreadSheet: numRows rows of min(numCols, 26) fresh cells.
CreateSpreadSheet(numRows, numCols) ==
    [i \in 0..(numRows - 1) |->
        [j \in 0..((IF numCols > MaxCols THEN MaxCols ELSE numCols) - 1) |->
            [dependentCells |-> {}, value |-> 0, formula |-> NoFormula]]]

\* sheet.cells[row][col] does not panic.
InSheet(cs, row, col) == row \in DOMAIN cs /\ col \in DOMAIN cs[row]

\* The results of the steps that write the sheet.
Panicked(cs) == [panic |-> TRUE, err |-> NoErr, cells |-> cs]

Done(cs) == [panic |-> FALSE, err |-> NoErr, cells |-> cs]

\* The loop of deleteDependees over cellIds[k..], p being the parsed formula.
RECURSIVE DeleteEach(_, _, _, _)
DeleteEach(cs, p, k, cellId) ==
    IF p.panic THEN Panicked(cs)
    ELSE IF k > Len(p.ids) THEN Done(cs)
    ELSE IF ~InSheet(cs, p.ids[k].row, p.ids[k].col) THEN Panicked(cs)
    ELSE DeleteEach(
           [cs EXCEPT ![p.ids[k].row][p.ids[k].col].dependentCells = @ \ {cellId}],
           p, k + 1, cellId)

deleteDependees(cs, cellId, formula) ==
    DeleteEach(cs, getCellIdsFromFormula(formula), 1, cellId)

\* The loop of addDependees over cellIds[k..].  The loop does not skip a
\* number term, whose row and col are 0.
RECURSIVE AddEach(_, _, _, _)
AddEach(cs, p, k, cellId) ==
    IF p.panic THEN Panicked(cs)
    ELSE IF k > Len(p.ids) THEN Done(cs)
    ELSE IF ~InSheet(cs, p.ids[k].row, p.ids[k].col) THEN Panicked(cs)
    ELSE AddEach(
           [cs EXCEPT ![p.ids[k].row][p.ids[k].col].dependentCells = @ \cup {cellId}],
           p, k + 1, cellId)

addDependees(cs, cellId, formula) ==
    AddEach(cs, getCellIdsFromFormula(formula), 1, cellId)

\* The loop of computeCellValue over cellIds[k..], value being the sum so far.
RECURSIVE SumEach(_, _, _, _)
SumEach(cs, p, k, value) ==
    IF p.panic THEN [panic |-> TRUE, value |-> value]
    ELSE IF k > Len(p.ids) THEN [panic |-> FALSE, value |-> value]
    ELSE IF p.ids[k].hasVal
    THEN SumEach(cs, p, k + 1,
                 IF p.ids[k].sign = "+" THEN value + p.ids[k].val
                 ELSE value - p.ids[k].val)
    ELSE IF ~InSheet(cs, p.ids[k].row, p.ids[k].col)
    THEN [panic |-> TRUE, value |-> value]
    ELSE SumEach(cs, p, k + 1,
                 IF p.ids[k].sign = "+"
                 THEN value + cs[p.ids[k].row][p.ids[k].col].value
                 ELSE value - cs[p.ids[k].row][p.ids[k].col].value)

\* The last statement of computeCellValue: the sum s is stored.
StoreSum(cs, row, col, s) ==
    IF s.panic THEN Panicked(cs)
    ELSE Done([cs EXCEPT ![row][col].value = s.value])

\* computeCellValue after getCellRowCol: the cell's value becomes 0 when it
\* has no formula, and the signed sum of its formula's terms otherwise.
ComputeAt(cs, rc) ==
    IF rc.panic THEN Panicked(cs)
    ELSE IF rc.err # NoErr THEN Done(cs)
    ELSE IF ~InSheet(cs, rc.row, rc.col) THEN Panicked(cs)
    ELSE IF cs[rc.row][rc.col].formula = NoFormula
    THEN Done([cs EXCEPT ![rc.row][rc.col].value = 0])
    ELSE StoreSum(cs, rc.row, rc.col,
           SumEach(cs, getCellIdsFromFormula(cs[rc.row][rc.col].formula), 1, 0))

computeCellValue(cs, cellId) == ComputeAt(cs, getCellRowCol(cellId))

(***************************************************************************)
(* SetCellValue and GetCellValue                                           *)
(***************************************************************************)
\* "Add dependees": st is the sheet after the value or the formula is stored.
AddNew(st, cellId, r, c) ==
    IF st.panic THEN st
    ELSE IF st.cells[r][c].formula # NoFormula
    THEN addDependees(st.cells, cellId, st.cells[r][c].formula)
    ELSE st

\* The store of SetCellValue: d is the sheet after "Remove dependees".  An
\* integer is stored as the value and unsets the formula; anything else is
\* stored as the formula, which is evaluated at once.
StoreValue(d, cellId, r, c, v) ==
    IF d.panic THEN d
    ELSE IF Atoi(v).ok
    THEN Done([d.cells EXCEPT ![r][c].value = Atoi(v).val,
                              ![r][c].formula = NoFormula])
    ELSE computeCellValue([d.cells EXCEPT ![r][c].formula = v], cellId)

\* "Remove dependees".
RemoveOld(cs, cellId, r, c) ==
    IF cs[r][c].formula # NoFormula
    THEN deleteDependees(cs, cellId, cs[r][c].formula)
    ELSE Done(cs)

\* SetCellValue from "Remove dependees" to "Add dependees", for the cell
\* r, c and the value v.
StoreCell(cs, cellId, r, c, v) ==
    AddNew(StoreValue(RemoveOld(cs, cellId, r, c), cellId, r, c, v), cellId, r, c)

\* A blank value is taken as "0".
Normalized(value) == IF IsBlank(value) THEN <<"0">> ELSE value

\* SetStoreAt with the error of getCellRowCol reported only after the store,
\* the coordinates of a cell id that does not resolve taken as 0, 0.
SetStoreLate(cs, cellId, rc, value) ==
    IF rc.panic THEN Panicked(cs)
    ELSE IF rc.err # NoErr
    THEN [StoreCell(cs, cellId, 0, 0, Normalized(value)) EXCEPT !.err = rc.err]
    ELSE IF ~InSheet(cs, rc.row, rc.col) THEN Panicked(cs)
    ELSE StoreCell(cs, cellId, rc.row, rc.col, Normalized(value))

\* SetCellValue up to the loop over the dependents, rc being the result of
\* getCellRowCol: its error is returned before anything is written, and
\* sheet.cells[row][col] panics for a cell the sheet does not have.
SetStoreAt(cs, cellId, rc, value) ==
    IF rc.panic THEN Panicked(cs)
    ELSE IF rc.err # NoErr THEN [panic |-> FALSE, err |-> rc.err, cells |-> cs]
    ELSE IF ~InSheet(cs, rc.row, rc.col) THEN Panicked(cs)
    ELSE StoreCell(cs, cellId, rc.row, rc.col, Normalized(value))

SetStore(cs, cellId, value) == SetStoreAt(cs, cellId, getCellRowCol(cellId), value)

\* The orders in which a range over the map dependentCells can yield its keys.
Orders(S) ==
    {o \in [1..Cardinality(S) -> S] :
        \A i, j \in 1..Cardinality(S) : i # j => o[i] # o[j]}

\* The loop of SetCellValue over the dependents, taken in the order given.
RECURSIVE Propagate(_, _, _)
Propagate(s, order, k) ==
    IF s.panic \/ k > Len(order) THEN s
    ELSE Propagate(computeCellValue(s.cells, order[k]), order, k + 1)

\* The map the loop of SetCellValue ranges over.
DependentsAt(cs, rc) == cs[rc.row][rc.col].dependentCells

DependentsOf(cs, cellId) == DependentsAt(cs, getCellRowCol(cellId))

MaxCalls == 3

\* The literal last stored in each cell by a call that returned.
LitAfter(lit, rc, a) ==
    IF a.ok THEN [lit EXCEPT ![rc.row][rc.col] = a.val] ELSE lit

\* A call of SetCellValue.  A panic ends the program: nothing of the sheet is
\* seen afterwards, and the variables keep the sheet of before the call.
SetCellValue(cellId, value) ==
    /\ ~crashed
    /\ calls < MaxCalls
    /\ calls' = calls + 1
    /\ lastOp' = [op |-> "SetCellValue", cellId |-> cellId, value |-> value]
    /\ lastRet' = 0
    /\ UNCHANGED <<reqRows, reqCols>>
    /\ LET s == SetStore(cells, cellId, value)
       IN  IF s.panic
           THEN /\ crashed' = TRUE
                /\ lastErr' = NoErr
                /\ UNCHANGED <<cells, recomputed, lastLit>>
           ELSE IF s.err # NoErr
           THEN /\ lastErr' = s.err
                /\ cells' = s.cells
                /\ recomputed' = <<>>
                /\ UNCHANGED <<crashed, lastLit>>
           ELSE \E order \in Orders(DependentsOf(s.cells, cellId)) :
                  LET p == Propagate(s, order, 1)
                  IN  /\ crashed' = p.panic
                      /\ lastErr' = NoErr
                      /\ cells' = IF p.panic THEN cells ELSE p.cells
                      /\ recomputed' = IF p.panic THEN recomputed ELSE order
                      /\ lastLit' = IF p.panic THEN lastLit
                                    ELSE LitAfter(lastLit, getCellRowCol(cellId),
                                                  Atoi(Normalized(value)))

\* GetResult with the bounds compared by > where the code has >=.
GetResultOffByOne(cs, rc) ==
    IF rc.panic THEN [panic |-> TRUE, err |-> NoErr, val |-> 0]
    ELSE IF rc.err # NoErr THEN [panic |-> FALSE, err |-> rc.err, val |-> 0]
    ELSE IF rc.row > Cardinality(DOMAIN cs)
    THEN [panic |-> FALSE, err |-> ErrRowBounds, val |-> 0]
    ELSE IF 0 \notin DOMAIN cs THEN [panic |-> TRUE, err |-> NoErr, val |-> 0]
    ELSE IF rc.col > Cardinality(DOMAIN cs[0])
    THEN [panic |-> FALSE, err |-> ErrColBounds, val |-> 0]
    ELSE IF ~InSheet(cs, rc.row, rc.col)
    THEN [panic |-> TRUE, err |-> NoErr, val |-> 0]
    ELSE [panic |-> FALSE, err |-> NoErr, val |-> cs[rc.row][rc.col].value]

\* GetCellValue after getCellRowCol: an error for a row or a column at or
\* beyond len(sheet.cells) or len(sheet.cells[0]), and the stored value
\* otherwise; an index below 0 panics.
GetResultAt(cs, rc) ==
    IF rc.panic THEN [panic |-> TRUE, err |-> NoErr, val |-> 0]
    ELSE IF rc.err # NoErr THEN [panic |-> FALSE, err |-> rc.err, val |-> 0]
    ELSE IF rc.row >= Cardinality(DOMAIN cs)
    THEN [panic |-> FALSE, err |-> ErrRowBounds, val |-> 0]
    ELSE IF 0 \notin DOMAIN cs THEN [panic |-> TRUE, err |-> NoErr, val |-> 0]
    ELSE IF rc.col >= Cardinality(DOMAIN cs[0])
    THEN [panic |-> FALSE, err |-> ErrColBounds, val |-> 0]
    ELSE IF ~InSheet(cs, rc.row, rc.col)
    THEN [panic |-> TRUE, err |-> NoErr, val |-> 0]
    ELSE [panic |-> FALSE, err |-> NoErr, val |-> cs[rc.row][rc.col].value]

GetResult(cs, cellId) == GetResultAt(cs, getCellRowCol(cellId))

GetCellValue(cellId) ==
    /\ ~crashed
    /\ lastOp' = [op |-> "GetCellValue", cellId |-> cellId, value |-> <<>>]
    /\ LET g == GetResult(cells, cellId)
       IN  /\ crashed' = g.panic
           /\ lastErr' = g.err
           /\ lastRet' = g.val
    /\ UNCHANGED <<cells, recomputed, calls, lastLit, reqRows, reqCols>>

(***************************************************************************)
(* The program: main creates a sheet of 3 x 3 cells and calls the two      *)
(* operations; the calls are drawn from the inputs below.                  *)
(***************************************************************************)
NumRows == 3
NumCols == 3

InitWith(rows, cols) ==
    /\ reqRows = rows
    /\ reqCols = cols
    /\ cells = CreateSpreadSheet(rows, cols)
    /\ lastLit = [i \in DOMAIN cells |-> [j \in DOMAIN cells[i] |-> 0]]
    /\ crashed = FALSE
    /\ lastOp = [op |-> "CreateSpreadSheet", cellId |-> <<>>, value |-> <<>>]
    /\ lastErr = NoErr
    /\ lastRet = 0
    /\ recomputed = <<>>
    /\ calls = 0

Init == InitWith(NumRows, NumCols)

A1 == <<"A", "1">>
B1 == <<"B", "1">>
C1 == <<"C", "1">>
\* "A01" names the cell of "A1": Atoi reads "01" as 1.
A01 == <<"A", "0", "1">>
D1 == <<"D", "1">>
A4 == <<"A", "4">>
Z1 == <<"Z", "1">>

SetIds == {A1, B1, C1, A01}

SetValues ==
    { <<"1">>, <<"2">>,
      <<"=", "A", "1">>, <<"=", "B", "1">>, <<"=", "C", "1">>,
      <<"=", "A", "1", "+", "B", "1">>,
      <<"=", "A", "1", ":", "B", "1">>,
      <<"=", "B", "1", ":", "A", "1">>,
      <<"=", "5">> }

\* Cell ids getCellRowCol does not resolve: a column that is no capital
\* letter, a row that is no integer.
BadIds == {<<"a", "1">>, <<"A">>}

BadIdValues == {<<"1">>, <<"=", "A", "1">>}

\* Cell ids that resolve to a row or a column the 3 x 3 sheet does not have.
OutsideIds == {D1, A4}

\* Values that are no integer and hold a term that is neither an integer nor
\* a cell or a range, and a blank value.
OddValues ==
    { <<"=", "A", "1", "+", "A">>, <<"=">>, <<"a", "b", "c">>, <<" ">> }

\* The calls of SetCellValue.
Next ==
    \/ \E cellId \in SetIds, value \in SetValues : SetCellValue(cellId, value)
    \/ \E cellId \in BadIds, value \in BadIdValues : SetCellValue(cellId, value)
    \/ \E cellId \in OutsideIds : SetCellValue(cellId, <<"1">>)
    \/ \E value \in OddValues : SetCellValue(B1, value)

Spec == Init /\ [][Next]_vars

\* Calls of SetCellValue with each call of GetCellValue between them.
QueryIds == {A1, B1, A01}

QueryValues == { <<"1">>, <<"2">>, <<"=", "5">>, <<"=", "A", "1">>, <<"=", "B", "1">> }

\* "A0" resolves to the row -1, which GetCellValue does not check.
GetIds == {A1, B1, D1, A4, <<"a", "1">>, <<"A", "0">>}

NextQuery ==
    \/ \E cellId \in QueryIds, value \in QueryValues : SetCellValue(cellId, value)
    \/ \E cellId \in BadIds, value \in BadIdValues : SetCellValue(cellId, value)
    \/ \E cellId \in GetIds : GetCellValue(cellId)

SpecQuery == Init /\ [][NextQuery]_vars

\* Calls that keep the assumption of the package comment: no formula refers,
\* directly or through other cells, to its own cell.  Each formula refers
\* only to cells of the columns before its own.
AcyclicCalls ==
    { <<A1, <<"1">>>>, <<A1, <<"2">>>>,
      <<B1, <<"1">>>>, <<B1, <<"=", "A", "1">>>>,
      <<C1, <<"=", "B", "1">>>>,
      <<C1, <<"=", "A", "1", "+", "B", "1">>>>,
      <<C1, <<"=", "A", "1", ":", "B", "1">>>> }

NextAcyclic ==
    \/ \E call \in AcyclicCalls : SetCellValue(call[1], call[2])
    \/ \E cellId \in {A1, B1, C1} : GetCellValue(cellId)

SpecAcyclic == Init /\ [][NextAcyclic]_vars

\* Sheets of other sizes, among them a request for more than 26 columns.
RowChoices == {1, 2, 3}
ColChoices == {1, 3, 26, 27, 30}

InitCreate == \E rows \in RowChoices, cols \in ColChoices : InitWith(rows, cols)

NextCreate ==
    \/ \E cellId \in {A1, C1, Z1}, value \in {<<"1">>, <<"=", "A", "1">>} :
          SetCellValue(cellId, value)
    \/ \E cellId \in {A1, Z1, A4} : GetCellValue(cellId)

SpecCreate == InitCreate /\ [][NextCreate]_vars

\* Calls that name the cell A1 by two ids, "A1" and "A01", with formulas
\* that hold no number and refer to no cell that refers back.
AliasCalls ==
    { <<A1, <<"1">>>>, <<A1, <<"=", "B", "1">>>>,
      <<A01, <<"2">>>>, <<A01, <<"=", "B", "1">>>>,
      <<B1, <<"1">>>>, <<B1, <<"2">>>>,
      <<C1, <<"=", "A", "1">>>> }

NextAlias ==
    \/ \E call \in AliasCalls : SetCellValue(call[1], call[2])
    \/ \E cellId \in {A1, B1} : GetCellValue(cellId)

SpecAlias == Init /\ [][NextAlias]_vars

(***************************************************************************)
(* What the claims speak of                                                *)
(***************************************************************************)
\* The cells of the sheet, as <<row, col>>.
Positions == UNION {{<<r, c>> : c \in DOMAIN cells[r]} : r \in DOMAIN cells}

CellAt(cs, pos) == cs[pos[1]][pos[2]]

HasFormula(cs, pos) == CellAt(cs, pos).formula # NoFormula

\* The cell a cell id names.
KeyCell(cellId) == <<getCellRowCol(cellId).row, getCellRowCol(cellId).col>>

\* The cells a formula refers to, as a single cell or within a range.
Referenced(formula) ==
    {<<t.row, t.col>> :
        t \in {u \in {getCellIdsFromFormula(formula).ids[k] :
                        k \in 1..Len(getCellIdsFromFormula(formula).ids)} :
               ~u.hasVal}}

\* The formula of a cell evaluated against the values the sheet stores.
Evaluated(cs, pos) ==
    SumEach(cs, getCellIdsFromFormula(CellAt(cs, pos).formula), 1, 0).value

\* The cells named in the dependents set of a cell.
DependentCells(cs, pos) == {KeyCell(k) : k \in CellAt(cs, pos).dependentCells}

\* The cells reached from the cells of S along dependents edges.
RECURSIVE DependentsClosure(_, _)
DependentsClosure(cs, S) ==
    IF UNION {DependentCells(cs, pos) : pos \in S} \subseteq S THEN S
    ELSE DependentsClosure(cs, S \cup UNION {DependentCells(cs, pos) : pos \in S})

Reachable(cs, pos) == DependentsClosure(cs, DependentCells(cs, pos))

\* The cells the formulas of the cells of S refer to, directly or through the
\* formulas of other cells.
RECURSIVE ReferenceClosure(_, _)
ReferenceClosure(cs, S) ==
    IF UNION {Referenced(CellAt(cs, pos).formula) :
                pos \in {q \in S : HasFormula(cs, q)}} \subseteq S
    THEN S
    ELSE ReferenceClosure(cs,
           S \cup UNION {Referenced(CellAt(cs, pos).formula) :
                           pos \in {q \in S : HasFormula(cs, q)}})

\* The last call was a SetCellValue that returned without an error.
SetReturned == lastOp.op = "SetCellValue" /\ ~crashed /\ lastErr = NoErr

RECURSIVE SumOfValues(_, _)
SumOfValues(cs, S) ==
    IF S = {} THEN 0
    ELSE LET pos == CHOOSE q \in S : TRUE
         IN  CellAt(cs, pos).value + SumOfValues(cs, S \ {pos})

(***************************************************************************)
(* The claims                                                              *)
(***************************************************************************)
\* C1: after any sequence of SetCellValue calls, every cell with a formula
\* holds that formula evaluated against the values the sheet now stores, and
\* every cell without a formula holds the literal last set on it.
ValueConsistent ==
    ~crashed =>
        \A pos \in Positions :
            IF HasFormula(cells, pos)
            THEN CellAt(cells, pos).value = Evaluated(cells, pos)
            ELSE CellAt(cells, pos).value = lastLit[pos[1]][pos[2]]

\* C2: a SetCellValue on X recomputes, exactly once each, every cell reached
\* from X along dependents edges over any number of hops.
RecomputesReachable ==
    SetReturned =>
        /\ {KeyCell(recomputed[i]) : i \in 1..Len(recomputed)}
             = Reachable(cells, KeyCell(lastOp.cellId))
        /\ \A i, j \in 1..Len(recomputed) :
             i # j => KeyCell(recomputed[i]) # KeyCell(recomputed[j])

\* The call SetCellValue(cellId, value) on the sheet cs installs a formula
\* that refers to its own cell, directly or through the formulas of the
\* cells it refers to.
InstallsCycle(cs, cellId, value) ==
    /\ getCellRowCol(cellId).err = NoErr
    /\ KeyCell(cellId) \in Positions
    /\ ~Atoi(Normalized(value)).ok
    /\ ~getCellIdsFromFormula(value).panic
    /\ Referenced(value) \subseteq Positions
    /\ KeyCell(cellId) \in
         ReferenceClosure(
           [cs EXCEPT ![KeyCell(cellId)[1]][KeyCell(cellId)[2]].formula = NoFormula],
           Referenced(value))

\* C3: a SetCellValue that installs a formula making the dependency graph
\* cyclic through the target cell fails, and leaves the values, the formulas
\* and the dependents sets as they were.
CycleRejected ==
    [][(lastOp'.op = "SetCellValue"
          /\ InstallsCycle(cells, lastOp'.cellId, lastOp'.value))
        => (~crashed' /\ lastErr' # NoErr /\ cells' = cells)]_vars

\* C4: Y is in the dependents set of X if and only if Y has a formula and
\* that formula refers to the cell X.
EdgesExact ==
    ~crashed =>
        \A x \in Positions, y \in Positions :
            (y \in DependentCells(cells, x))
              <=> (HasFormula(cells, y) /\ x \in Referenced(CellAt(cells, y).formula))

\* C5: whenever SetCellValue returns an error, every cell's value, formula
\* and dependents set is what it was before the call.
ErrorLeavesSheet ==
    [][(lastOp'.op = "SetCellValue" /\ lastErr' # NoErr) => cells' = cells]_vars

\* C5: a SetCellValue has returned an error on a sheet that holds a formula.
ErrorOnUsedSheet ==
    /\ lastOp.op = "SetCellValue"
    /\ lastErr # NoErr
    /\ \E pos \in Positions : HasFormula(cells, pos)

\* A value that is no integer and holds a term that is neither an integer
\* nor a cell or a range.
Malformed(value) ==
    /\ ~Atoi(Normalized(value)).ok
    /\ \/ getCellIdsFromFormula(value).panic
       \/ \E k \in 1..Len(getCellIdsFromFormula(value).ids) :
            /\ ~getCellIdsFromFormula(value).ids[k].hasVal
            /\ getCellIdsFromFormula(value).ids[k].row < 0

\* C6: a SetCellValue on a cell of the sheet with a malformed value returns
\* an error to the caller, and does not end the program.
ParseErrorReturned ==
    (/\ lastOp.op = "SetCellValue"
     /\ getCellRowCol(lastOp.cellId).err = NoErr
     /\ KeyCell(lastOp.cellId) \in Positions
     /\ Malformed(lastOp.value))
    => (~crashed /\ lastErr # NoErr)

\* C7: a GetCellValue(c) that follows a SetCellValue(c, n) with an integer n
\* returns n, and the cell has no formula.
LiteralRoundTrip ==
    [][(/\ SetReturned
        /\ Atoi(Normalized(lastOp.value)).ok
        /\ lastOp'.op = "GetCellValue"
        /\ lastOp'.cellId = lastOp.cellId)
       => (/\ ~crashed'
           /\ lastErr' = NoErr
           /\ lastRet' = Atoi(Normalized(lastOp.value)).val
           /\ ~HasFormula(cells', KeyCell(lastOp.cellId)))]_vars

\* The value is "=P:Q" for two cell ids P and Q, and nothing else.
IsRangeFormula(value) ==
    /\ Len(value) > 1
    /\ value[1] = "="
    /\ Cardinality(ColonAt(value)) = 1
    /\ \A i \in 1..Len(value) : value[i] \notin {"+", "-"}
    /\ getCellRowCol(SplitFirst(Tail(value))).err = NoErr
    /\ getCellRowCol(SplitSecond(Tail(value))).err = NoErr

\* The cells of the rectangle from P (top left) to Q (bottom right).
Rectangle(value) ==
    {pos \in Positions :
        /\ KeyCell(SplitFirst(Tail(value)))[1] <= pos[1]
        /\ pos[1] <= KeyCell(SplitSecond(Tail(value)))[1]
        /\ KeyCell(SplitFirst(Tail(value)))[2] <= pos[2]
        /\ pos[2] <= KeyCell(SplitSecond(Tail(value)))[2]}

\* C8: installing the formula "=P:Q", P the top left and Q the bottom right
\* cell of a rectangle of the sheet, on a cell outside the rectangle gives
\* that cell the sum of the values of the cells of the rectangle.
RangeSum ==
    (/\ SetReturned
     /\ IsRangeFormula(lastOp.value)
     /\ KeyCell(SplitFirst(Tail(lastOp.value))) \in Rectangle(lastOp.value)
     /\ KeyCell(SplitSecond(Tail(lastOp.value))) \in Rectangle(lastOp.value)
     /\ KeyCell(lastOp.cellId) \notin Rectangle(lastOp.value))
    => CellAt(cells, KeyCell(lastOp.cellId)).value
         = SumOfValues(cells, Rectangle(lastOp.value))

\* A cell id of the format of the interface: one capital letter, then a
\* positive integer.
WellFormedId(cellId) ==
    /\ Len(cellId) > 1
    /\ \E k \in 1..26 : Upper[k] = cellId[1]
    /\ \A i \in 2..Len(cellId) : IsDigit(cellId[i])
    /\ DigitsValue(Tail(cellId)) >= 1

IdRow(cellId) == DigitsValue(Tail(cellId)) - 1

IdCol(cellId) == (CHOOSE k \in 1..26 : Upper[k] = cellId[1]) - 1

\* The columns of a sheet created for cols columns.
SheetCols(cols) == IF cols < 26 THEN cols ELSE 26

\* C9: GetCellValue changes no cell; for a well-formed cell id whose row or
\* column exceeds the dimensions of the sheet it returns an out-of-bounds
\* error, and for any other well-formed cell id the stored value.
GetIsPureQuery ==
    [][lastOp'.op = "GetCellValue" =>
        /\ cells' = cells
        /\ WellFormedId(lastOp'.cellId) =>
             IF IdRow(lastOp'.cellId) >= reqRows
                  \/ IdCol(lastOp'.cellId) >= SheetCols(reqCols)
             THEN ~crashed' /\ lastErr' \in {ErrRowBounds, ErrColBounds}
             ELSE /\ ~crashed'
                  /\ lastErr' = NoErr
                  /\ lastRet' = cells[IdRow(lastOp'.cellId)][IdCol(lastOp'.cellId)].value
       ]_vars

\* C9: a GetCellValue has returned the row error on a sheet that holds a
\* formula.
GetBeyondRows ==
    /\ lastOp.op = "GetCellValue"
    /\ lastErr = ErrRowBounds
    /\ \E pos \in Positions : HasFormula(cells, pos)

\* C10: the sheet has reqRows rows of min(reqCols, 26) cells, and after
\* CreateSpreadSheet each cell has the value 0, no formula and no dependents.
FreshSheet ==
    /\ DOMAIN cells = 0..(reqRows - 1)
    /\ \A r \in DOMAIN cells : DOMAIN cells[r] = 0..(SheetCols(reqCols) - 1)
    /\ lastOp.op = "CreateSpreadSheet" =>
         \A pos \in Positions :
            /\ CellAt(cells, pos).value = 0
            /\ CellAt(cells, pos).formula = NoFormula
            /\ CellAt(cells, pos).dependentCells = {}

\* C10: a sheet created for 30 columns has 26.
ThirtyColumnsAsked ==
    /\ lastOp.op = "CreateSpreadSheet"
    /\ reqCols = 30
    /\ Cardinality(DOMAIN cells[0]) = 26

\* The cells recomputed by the loop of the last call, in the order taken.
RecomputedCell(i) == KeyCell(recomputed[i])

\* C11: during a SetCellValue a dependent cell is recomputed only after every
\* cell its formula refers to that is recomputed in the same call; in the
\* diamond Z = "=X", Y = "=X+Z" the cell Y is recomputed after Z.
TopologicalOrder ==
    SetReturned =>
        \A i, j \in 1..Len(recomputed) :
            (/\ RecomputedCell(i) # RecomputedCell(j)
             /\ RecomputedCell(i) \in
                  Referenced(CellAt(cells, RecomputedCell(j)).formula))
            => i < j

\* C12: a SetCellValue on a cell X that had a formula leaves X out of the
\* dependents set of every cell the old formula referred to and the new
\* content does not refer to.
StaleEdgesRemoved ==
    [][(/\ lastOp'.op = "SetCellValue"
        /\ ~crashed'
        /\ lastErr' = NoErr
        /\ HasFormula(cells, KeyCell(lastOp'.cellId)))
       => \A pos \in Referenced(CellAt(cells, KeyCell(lastOp'.cellId)).formula)
                       \ Referenced(CellAt(cells', KeyCell(lastOp'.cellId)).formula) :
             KeyCell(lastOp'.cellId) \notin DependentCells(cells', pos)]_vars

\* C13: the value of a cell that holds a literal changes only by a
\* SetCellValue on that cell.
LiteralStable ==
    [][\A pos \in Positions :
         (/\ ~HasFormula(cells, pos)
          /\ ~crashed'
          /\ CellAt(cells', pos).value # CellAt(cells, pos).value)
         => (/\ lastOp'.op = "SetCellValue"
             /\ KeyCell(lastOp'.cellId) = pos)]_vars

\* A value that is a formula of numbers, cells of the sheet and ranges.
WellFormedFormula(value) ==
    /\ Len(value) > 1
    /\ value[1] = "="
    /\ ~Malformed(value)
    /\ Referenced(value) \subseteq Positions

\* C14: when SetCellValue(X, f) installs a well-formed formula f that does
\* not refer to X, X holds on return the signed sum of the terms of f over
\* the values the sheet stores.
InstalledValueIsFold ==
    (/\ SetReturned
     /\ WellFormedFormula(lastOp.value)
     /\ KeyCell(lastOp.cellId) \notin Referenced(lastOp.value))
    => CellAt(cells, KeyCell(lastOp.cellId)).value
         = Evaluated(cells, KeyCell(lastOp.cellId))

\* C19: after a SetCellValue with well-formed input has returned, every cell
\* id in a dependents set names a cell that has a formula.
DependentsHaveFormulas ==
    SetReturned =>
        \A pos \in Positions :
            \A dep \in DependentCells(cells, pos) : HasFormula(cells, dep)

\* The cells whose formula refers to the cell x.
Referencing(cs, x) ==
    {y \in Positions : HasFormula(cs, y) /\ x \in Referenced(CellAt(cs, y).formula)}

\* The formula of y refers, apart from x, only to cells without a formula.
OnlyLiteralsBeside(cs, y, x) ==
    \A z \in Referenced(CellAt(cs, y).formula) \ {x} :
        z \in Positions /\ ~HasFormula(cs, z)

\* C15: if every cell whose formula refers to X refers, apart from X, only
\* to cells without a formula, then after SetCellValue(X, v) has returned
\* each of those cells holds its formula evaluated against the sheet.
SingleHopFresh ==
    (/\ SetReturned
     /\ \A y \in Referencing(cells, KeyCell(lastOp.cellId)) :
           OnlyLiteralsBeside(cells, y, KeyCell(lastOp.cellId)))
    => \A y \in Referencing(cells, KeyCell(lastOp.cellId)) :
          CellAt(cells, y).value = Evaluated(cells, y)

\* C16: every SetCellValue returns, with or without an error, after at most
\* as many recomputations as the sheet has cells.
SetCompletes ==
    lastOp.op = "SetCellValue" =>
        /\ ~crashed
        /\ Len(recomputed) <= Cardinality(Positions)

\* The value is "=P:Q" with Q above or to the left of P.
IsReversedRange(value) ==
    /\ IsRangeFormula(value)
    /\ \/ KeyCell(SplitSecond(Tail(value)))[1] < KeyCell(SplitFirst(Tail(value)))[1]
       \/ KeyCell(SplitSecond(Tail(value)))[2] < KeyCell(SplitFirst(Tail(value)))[2]

Between(a, b, x) == (a <= x /\ x <= b) \/ (b <= x /\ x <= a)

\* The cells of the rectangle spanned by P and Q, whatever their order.
Span(value) ==
    {pos \in Positions :
        /\ Between(KeyCell(SplitFirst(Tail(value)))[1],
                   KeyCell(SplitSecond(Tail(value)))[1], pos[1])
        /\ Between(KeyCell(SplitFirst(Tail(value)))[2],
                   KeyCell(SplitSecond(Tail(value)))[2], pos[2])}

\* C17: a SetCellValue with a formula "=P:Q" whose Q lies above or to the
\* left of P returns an error, or installs the range as the rectangle
\* spanned by P and Q: the target is a dependent of each cell of it.
ReversedRangeHandled ==
    (/\ lastOp.op = "SetCellValue"
     /\ KeyCell(lastOp.cellId) \in Positions
     /\ IsReversedRange(lastOp.value))
    => /\ ~crashed
       /\ \/ lastErr # NoErr
          \/ \A pos \in Span(lastOp.value) :
                KeyCell(lastOp.cellId) \in DependentCells(cells, pos)

\* C18: the sheet a SetCellValue leaves is the same for every order in
\* which the loop over the dependents of the target can take them.
OrderIndependent ==
    [][(/\ lastOp'.op = "SetCellValue"
        /\ ~crashed'
        /\ lastErr' = NoErr)
       => \A order \in Orders(DependentsOf(
                 SetStore(cells, lastOp'.cellId, lastOp'.value).cells,
                 lastOp'.cellId)) :
             Propagate(SetStore(cells, lastOp'.cellId, lastOp'.value),
                       order, 1).cells = cells']_vars

====
